---- MODULE Spec2Model ----
(***************************************************************************)
(* The browser client of the colony simulation: the world-state mirror     *)
(* (frontend/js/state.js, GameState), the viewport of the canvas renderer  *)
(* (frontend/js/renderer.js, Renderer) and the socket's message handler    *)
(* (renderer.js, ws.onmessage).                                            *)
(*                                                                         *)
(* JavaScript runs every callback to completion on one thread, so each     *)
(* callback is one action.  A callback fires when the event loop is idle   *)
(* and leaves in `event' the event it handled (and in `threw' whether it   *)
(* ended by an uncaught exception); Return hands control back to the       *)
(* event loop.                                                             *)
(***************************************************************************)
EXTENDS Integers, Sequences, FiniteSets, TLC

(***************************************************************************)
(* Bounds of the model.                                                    *)
(***************************************************************************)
\* The world of the snapshots is WorldW x WorldH tiles, Depth levels deep.
WorldW == 6
WorldH == 2
\* Before the world is known nothing clamps the viewport: the scroll keys are
\* followed while the origin stays within MaxView tiles of (0, 0).
MaxView == 8
\* A list of a message holds at most MaxLen entries.
MaxLen == 2

(***************************************************************************)
(* Program constants.                                                      *)
(***************************************************************************)
tileW == 12
tileH == 16
scrollSpeed == 4
StatusBarPx == 24

(***************************************************************************)
(* Values.                                                                 *)
(***************************************************************************)
\* A field a JSON object does not carry reads as undefined.  As a tile
\* coordinate or a Map key it is a value like any other that is no index of
\* an array and no id the server assigns.
Undefined == -1

Max(a, b) == IF a >= b THEN a ELSE b
Min(a, b) == IF a <= b THEN a ELSE b
\* Math.ceil(a / b) for a >= 0, b > 0.
CeilDiv(a, b) == (a + b - 1) \div b

\* The levels of the world, and the ids of its creatures and items.
Zs == {0, 1}
Ids == {1, 2}

\* Cells of a tile grid: {w, f, fl}.
cStone == [w |-> 2, f |-> 0, fl |-> 0]
cGrass == [w |-> 0, f |-> 6, fl |-> 4]
Cells == {cStone, cGrass}

\* this.tiles = null
NoGrid == [resident |-> FALSE, rows |-> <<>>]
\* A grid as JSON.parse builds it: an array of h rows, each an array of w cells.
\* A row is its properties: the indices 0..w-1 and whatever was assigned since.
UniformGrid(w, h, c) ==
    [resident |-> TRUE, rows |-> [y \in 0 .. (h - 1) |-> [x \in 0 .. (w - 1) |-> c]]]

\* new Map()
EmptyMap == <<>>
MapSet(m, k, v) == [i \in (DOMAIN m) \cup {k} |-> IF i = k THEN v ELSE m[i]]
MapDelete(m, k) == [i \in (DOMAIN m) \ {k} |-> m[i]]

\* All sequences over S of length at most n.
SeqsUpTo(S, n) == UNION {[1 .. k -> S] : k \in 0 .. n}

(***************************************************************************)
(* Inbound messages (the objects JSON.parse returns in ws.onmessage).      *)
(***************************************************************************)
\* Positions (x, y, z) the server reports for creatures and items.
posA == <<1, 0, 0>>
posB == <<2, 1, 1>>

\* An entry of a creatures or items list: {id, removed?, x, y, z, ...}.
Entity(i, pos) == [id |-> i, removed |-> FALSE, x |-> pos[1], y |-> pos[2], z |-> pos[3]]
Removal(i) == [id |-> i, removed |-> TRUE, x |-> Undefined, y |-> Undefined, z |-> Undefined]

\* The entries of a snapshot's creature list.
SnapshotEntries == {Entity(i, posA) : i \in Ids} \cup {Entity(1, posB)}
\* The entries of a delta's creature list.
CreatureEntries == SnapshotEntries \cup {Removal(1)}
\* The entries of a delta's item list.
ItemEntries == {Entity(i, posA) : i \in Ids} \cup {Removal(1)}

\* An entry of a delta's tiles list: {x, y, z, wall, floor, flags}.
TileEntry(x, y, z, c) ==
    [x |-> x, y |-> y, z |-> z, wall |-> c.w, floor |-> c.f, flags |-> c.fl]
\* Entries for the cell (1, 0) of a level, and two malformed ones: one
\* without y, one whose x is one past the end of the row.
TileEntries ==
    {TileEntry(1, 0, 0, c) : c \in Cells}
        \cup {TileEntry(1, 0, 1, cGrass),
              TileEntry(1, Undefined, 0, cGrass), TileEntry(WorldW, 0, 0, cGrass)}

SnapshotMsgs ==
    {[type |-> "snapshot", width |-> WorldW, height |-> WorldH, depth |-> Cardinality(Zs),
      surface_z |-> s, hasCreatures |-> TRUE, creatures |-> l] :
        s \in Zs, l \in SeqsUpTo(SnapshotEntries, MaxLen)}
    \cup
    {[type |-> "snapshot", width |-> WorldW, height |-> WorldH, depth |-> Cardinality(Zs),
      surface_z |-> s, hasCreatures |-> FALSE, creatures |-> <<>>] : s \in Zs}

ZLevelMsgs ==
    {[type |-> "z_level", z |-> z, tiles |-> UniformGrid(WorldW, WorldH, cStone)] :
        z \in Zs}

\* A delta carries at most MaxLen entries in all; a list without entries is
\* left out of the message, except in the delta of three empty lists.
DeltaOf(t, c, i, present) ==
    [type |-> "delta",
     hasTiles |-> present \/ t # <<>>, tiles |-> t,
     hasCreatures |-> present \/ c # <<>>, creatures |-> c,
     hasItems |-> present \/ i # <<>>, items |-> i]
DeltaMsgs ==
    {DeltaOf(l[1], l[2], l[3], FALSE) :
        l \in {k \in SeqsUpTo(TileEntries, MaxLen) \X SeqsUpTo(CreatureEntries, MaxLen)
                        \X SeqsUpTo(ItemEntries, MaxLen) :
                 Len(k[1]) + Len(k[2]) + Len(k[3]) <= MaxLen}}
    \cup {DeltaOf(<<>>, <<>>, <<>>, TRUE)}

PauseMsgs == {[type |-> "pause_state", paused |-> b] : b \in BOOLEAN}

\* A message of a kind this client does not know.
UnknownMsgs == {[type |-> "chat"]}

Messages == SnapshotMsgs \cup ZLevelMsgs \cup DeltaMsgs \cup PauseMsgs \cup UnknownMsgs

(***************************************************************************)
(* GameState (state.js).                                                   *)
(***************************************************************************)
\* this.tiles[tile.y][tile.x] = {w, f, fl}, for a row that exists.
SetCell(tiles, tile) ==
    [tiles EXCEPT !.rows[tile.y] =
        MapSet(@, tile.x, [w |-> tile.wall, f |-> tile.floor, fl |-> tile.flags])]

\* The loop over delta.tiles from entry i on.  Reading this.tiles[tile.y] of a
\* row that does not exist gives undefined, and assigning a property of
\* undefined throws a TypeError, which ends the loop and applyDelta.
RECURSIVE ApplyTiles(_, _, _, _)
ApplyTiles(tiles, currentZ, list, i) ==
    IF i > Len(list) THEN [tiles |-> tiles, threw |-> FALSE]
    ELSE LET tile == list[i] IN
         IF tile.z = currentZ /\ tiles.resident
         THEN IF tile.y \in DOMAIN tiles.rows
              THEN ApplyTiles(SetCell(tiles, tile), currentZ, list, i + 1)
              ELSE [tiles |-> tiles, threw |-> TRUE]
         ELSE ApplyTiles(tiles, currentZ, list, i + 1)

\* The loop over delta.creatures from entry i on.
RECURSIVE ApplyCreatures(_, _, _)
ApplyCreatures(creatures, list, i) ==
    IF i > Len(list) THEN creatures
    ELSE LET c == list[i] IN
         IF c.removed
         THEN ApplyCreatures(MapDelete(creatures, c.id), list, i + 1)
         ELSE ApplyCreatures(MapSet(creatures, c.id, c), list, i + 1)

\* The loop over delta.items from entry i on.
RECURSIVE ApplyItems(_, _, _)
ApplyItems(items, list, i) ==
    IF i > Len(list) THEN items
    ELSE LET item == list[i] IN
         IF item.removed
         THEN ApplyItems(MapDelete(items, item.id), list, i + 1)
         ELSE ApplyItems(MapSet(items, item.id, item), list, i + 1)

\* applyDelta with the items loop working on this.creatures: one map for both
\* kinds of entity.
applyDeltaOneMap(st, delta) ==
    LET t == IF delta.hasTiles
             THEN ApplyTiles(st.tiles, st.currentZ, delta.tiles, 1)
             ELSE [tiles |-> st.tiles, threw |-> FALSE]
        cs == IF delta.hasCreatures
              THEN ApplyCreatures(st.creatures, delta.creatures, 1) ELSE st.creatures
    IN  IF t.threw
        THEN [st EXCEPT !.tiles = t.tiles, !.threw = TRUE]
        ELSE [st EXCEPT
                !.tiles = t.tiles,
                !.creatures = IF delta.hasItems THEN ApplyItems(cs, delta.items, 1) ELSE cs]

\* applyDelta(delta) on the mirror st.
applyDelta(st, delta) ==
    LET t == IF delta.hasTiles
             THEN ApplyTiles(st.tiles, st.currentZ, delta.tiles, 1)
             ELSE [tiles |-> st.tiles, threw |-> FALSE]
    IN  IF t.threw
        THEN [st EXCEPT !.tiles = t.tiles, !.threw = TRUE]
        ELSE [st EXCEPT
                !.tiles = t.tiles,
                !.creatures = IF delta.hasCreatures
                              THEN ApplyCreatures(@, delta.creatures, 1) ELSE @,
                !.items = IF delta.hasItems THEN ApplyItems(@, delta.items, 1) ELSE @]

\* The snapshot's loop: this.creatures.set(c.id, c) from entry i on.
RECURSIVE SetAll(_, _, _)
SetAll(creatures, list, i) ==
    IF i > Len(list) THEN creatures
    ELSE SetAll(MapSet(creatures, list[i].id, list[i]), list, i + 1)

\* applySnapshot without this.creatures.clear(): the list is merged into the map.
applySnapshotMerges(st, data) ==
    [st EXCEPT
        !.width = data.width,
        !.height = data.height,
        !.depth = data.depth,
        !.surfaceZ = data.surface_z,
        !.currentZ = data.surface_z,
        !.creatures = IF data.hasCreatures THEN SetAll(@, data.creatures, 1) ELSE @]

\* case "snapshot"
applySnapshot(st, data) ==
    [st EXCEPT
        !.width = data.width,
        !.height = data.height,
        !.depth = data.depth,
        !.surfaceZ = data.surface_z,
        !.currentZ = data.surface_z,
        !.creatures = IF data.hasCreatures THEN SetAll(EmptyMap, data.creatures, 1) ELSE @]

\* case "z_level"
applyZLevel(st, data) == [st EXCEPT !.tiles = data.tiles, !.currentZ = data.z]

\* case "pause_state"
applyPauseState(st, data) == [st EXCEPT !.paused = data.paused]

\* handleMessage without the break of case "delta": control falls through to
\* case "pause_state", which stores the delta's (absent, falsy) paused field.
handleMessageFallsThrough(st, data) ==
    CASE data.type = "snapshot" -> applySnapshot(st, data)
      [] data.type = "z_level" -> applyZLevel(st, data)
      [] data.type = "delta" ->
            LET after == applyDelta(st, data)
            IN  IF after.threw THEN after ELSE [after EXCEPT !.paused = FALSE]
      [] data.type = "pause_state" -> applyPauseState(st, data)
      [] OTHER -> st

\* handleMessage with a default case that throws on an unknown type.
handleMessageThrowsOnUnknown(st, data) ==
    CASE data.type = "snapshot" -> applySnapshot(st, data)
      [] data.type = "z_level" -> applyZLevel(st, data)
      [] data.type = "delta" -> applyDelta(st, data)
      [] data.type = "pause_state" -> applyPauseState(st, data)
      [] OTHER -> [st EXCEPT !.threw = TRUE]

\* handleMessage(data) on the mirror st: the switch on data.type.
handleMessage(st, data) ==
    CASE data.type = "snapshot" -> applySnapshot(st, data)
      [] data.type = "z_level" -> applyZLevel(st, data)
      [] data.type = "delta" -> applyDelta(st, data)
      [] data.type = "pause_state" -> applyPauseState(st, data)
      [] OTHER -> st

(***************************************************************************)
(* Renderer: the viewport (renderer.js).                                   *)
(***************************************************************************)
\* centerOn that keeps the origin from going negative.
centerOnClamped(x, y, tw, th) ==
    [viewX |-> Max(0, x - (tw \div 2)), viewY |-> Max(0, y - (th \div 2))]

\* centerOn(x, y): the new origin.
centerOn(x, y, tw, th) == [viewX |-> x - (tw \div 2), viewY |-> y - (th \div 2)]

\* scroll with the clamps applied in the other order: Math.min(Math.max(0, v), limit).
scrollClampsUpperLast(vx, vy, dx, dy, w, h, tw, th) ==
    IF w > 0
    THEN [viewX |-> Min(Max(0, vx + dx), w - tw), viewY |-> Min(Max(0, vy + dy), h - th)]
    ELSE [viewX |-> vx + dx, viewY |-> vy + dy]

\* scroll with the upper limit one tile short: width - tilesWide - 1.
scrollOneShort(vx, vy, dx, dy, w, h, tw, th) ==
    IF w > 0
    THEN [viewX |-> Max(0, Min(vx + dx, w - tw - 1)),
          viewY |-> Max(0, Min(vy + dy, h - th - 1))]
    ELSE [viewX |-> vx + dx, viewY |-> vy + dy]

\* scroll(dx, dy): the new origin; width and height are the mirror's.
scroll(vx, vy, dx, dy, w, h, tw, th) ==
    IF w > 0
    THEN [viewX |-> Max(0, Min(vx + dx, w - tw)), viewY |-> Max(0, Min(vy + dy, h - th))]
    ELSE [viewX |-> vx + dx, viewY |-> vy + dy]

\* resize(): the visible extent in tiles for a canvas in a rect of these pixels.
resize(rectW, rectH) ==
    [tilesWide |-> CeilDiv(rectW, tileW), tilesHigh |-> CeilDiv(rectH - StatusBarPx, tileH)]

(***************************************************************************)
(* Renderer: the display tables and drawTile (renderer.js).  The glyphs    *)
(* outside ASCII are written by name: "middot" is the centred dot,         *)
(* "approx" the double tilde, "triangle" the ramp, "omega" the building.   *)
(***************************************************************************)
WALL_DISPLAY ==
    [t \in 0 .. 9 |->
        CASE t = 0 -> [ch |-> " ", fg |-> "#000"]
          [] t = 1 -> [ch |-> ".", fg |-> "#8B4513"]
          [] t = 2 -> [ch |-> "#", fg |-> "#888"]
          [] t = 3 -> [ch |-> "#", fg |-> "#aaa"]
          [] t = 4 -> [ch |-> "~", fg |-> "#00f"]
          [] t = 5 -> [ch |-> "~", fg |-> "#f80"]
          [] t = 6 -> [ch |-> ".", fg |-> "#0a0"]
          [] t = 7 -> [ch |-> "$", fg |-> "#b44"]
          [] t = 8 -> [ch |-> "$", fg |-> "#c84"]
          [] t = 9 -> [ch |-> "$", fg |-> "#ff0"]]

FLOOR_DISPLAY ==
    [t \in 0 .. 9 |->
        CASE t = 0 -> [ch |-> "middot", fg |-> "#444"]
          [] t = 1 -> [ch |-> "middot", fg |-> "#8B4513"]
          [] t = 2 -> [ch |-> "middot", fg |-> "#888"]
          [] t = 3 -> [ch |-> "middot", fg |-> "#aaa"]
          [] t = 4 -> [ch |-> "approx", fg |-> "#00f"]
          [] t = 5 -> [ch |-> "approx", fg |-> "#f80"]
          [] t = 6 -> [ch |-> ",", fg |-> "#0a0"]
          [] t = 7 -> [ch |-> "middot", fg |-> "#b44"]
          [] t = 8 -> [ch |-> "middot", fg |-> "#c84"]
          [] t = 9 -> [ch |-> "middot", fg |-> "#ff0"]]

\* The markers drawTile falls back to when a table has no entry for the code.
UnknownWall == [ch |-> "?", fg |-> "#f0f"]
UnknownFloor == [ch |-> "middot", fg |-> "#444"]

FLAG_WALKABLE == 1
FLAG_DIGGABLE == 2
FLAG_HAS_FLOOR == 4
FLAG_HAS_STAIR_UP == 8
FLAG_HAS_STAIR_DOWN == 16
FLAG_HAS_RAMP == 32
FLAG_HAS_BUILDING == 64
FLAG_DESIGNATED == 128

\* flags & FLAG is not zero, for a FLAG of one bit.
HasFlag(flags, flag) == (flags \div flag) % 2 = 1

\* table[code] || marker
Lookup(table, code, marker) == IF code \in DOMAIN table THEN table[code] ELSE marker

\* drawTile with the material looked at before the building flag.
drawTileWallBeforeBuilding(tile) ==
    LET flags == tile.fl
        glyph ==
            IF HasFlag(flags, FLAG_HAS_STAIR_UP) /\ HasFlag(flags, FLAG_HAS_STAIR_DOWN)
            THEN [ch |-> "X", fg |-> "#aaa"]
            ELSE IF HasFlag(flags, FLAG_HAS_STAIR_UP) THEN [ch |-> "<", fg |-> "#aaa"]
            ELSE IF HasFlag(flags, FLAG_HAS_STAIR_DOWN) THEN [ch |-> ">", fg |-> "#aaa"]
            ELSE IF HasFlag(flags, FLAG_HAS_RAMP) THEN [ch |-> "triangle", fg |-> "#888"]
            ELSE IF tile.w # 0 THEN Lookup(WALL_DISPLAY, tile.w, UnknownWall)
            ELSE IF HasFlag(flags, FLAG_HAS_BUILDING) THEN [ch |-> "omega", fg |-> "#c84"]
            ELSE IF HasFlag(flags, FLAG_HAS_FLOOR)
                 THEN Lookup(FLOOR_DISPLAY, tile.f, UnknownFloor)
            ELSE [ch |-> " ", fg |-> "#000"]
    IN  [ch |-> glyph.ch, fg |-> glyph.fg,
         bg |-> IF HasFlag(flags, FLAG_DESIGNATED) THEN "#330" ELSE "#000"]

\* drawTile(ctx, tile, px, py): the character, its colour and the background
\* of the cell.  The background is filled only when it is not "#000" and the
\* character drawn only when it is not " ".
drawTile(tile) ==
    LET flags == tile.fl
        glyph ==
            IF HasFlag(flags, FLAG_HAS_STAIR_UP) /\ HasFlag(flags, FLAG_HAS_STAIR_DOWN)
            THEN [ch |-> "X", fg |-> "#aaa"]
            ELSE IF HasFlag(flags, FLAG_HAS_STAIR_UP) THEN [ch |-> "<", fg |-> "#aaa"]
            ELSE IF HasFlag(flags, FLAG_HAS_STAIR_DOWN) THEN [ch |-> ">", fg |-> "#aaa"]
            ELSE IF HasFlag(flags, FLAG_HAS_RAMP) THEN [ch |-> "triangle", fg |-> "#888"]
            ELSE IF HasFlag(flags, FLAG_HAS_BUILDING) THEN [ch |-> "omega", fg |-> "#c84"]
            ELSE IF tile.w # 0 THEN Lookup(WALL_DISPLAY, tile.w, UnknownWall)
            ELSE IF HasFlag(flags, FLAG_HAS_FLOOR)
                 THEN Lookup(FLOOR_DISPLAY, tile.f, UnknownFloor)
            ELSE [ch |-> " ", fg |-> "#000"]
    IN  [ch |-> glyph.ch, fg |-> glyph.fg,
         bg |-> IF HasFlag(flags, FLAG_DESIGNATED) THEN "#330" ELSE "#000"]

\* What render() draws after clearing the canvas, pass by pass: the tile pass
\* (cells: screen cell -> drawTile's result), then the creature pass, then the
\* item pass (one draw per entity: its id, screen cell, character, colour).
\* Nothing drawn:
NoFrame == [cells |-> <<>>, creatures |-> {}, items |-> {}]

\* entity.char || ch, entity.color || fg
EntityDraw(e, sx, sy, ch, fg) ==
    [id |-> e.id, sx |-> sx, sy |-> sy,
     ch |-> IF "char" \in DOMAIN e THEN e.char ELSE ch,
     fg |-> IF "color" \in DOMAIN e THEN e.color ELSE fg]

\* The entity is on the level cz and inside the visible rectangle.
Visible(e, cz, vx, vy, tw, th) ==
    /\ e.z = cz
    /\ e.x - vx >= 0 /\ e.x - vx < tw
    /\ e.y - vy >= 0 /\ e.y - vy < th

\* render(): st is the mirror, (vx, vy) the viewport origin, tw x th the
\* visible extent in tiles.
render(st, vx, vy, tw, th) ==
    IF ~st.tiles.resident
    THEN NoFrame
    ELSE [cells |->
            [c \in {d \in (0 .. (tw - 1)) \X (0 .. (th - 1)) :
                        /\ vy + d[2] >= 0 /\ vy + d[2] < st.height
                        /\ vy + d[2] \in DOMAIN st.tiles.rows
                        /\ vx + d[1] >= 0 /\ vx + d[1] < st.width
                        /\ vx + d[1] \in DOMAIN st.tiles.rows[vy + d[2]]}
                |-> drawTile(st.tiles.rows[vy + c[2]][vx + c[1]])],
          creatures |->
            {EntityDraw(st.creatures[k], st.creatures[k].x - vx, st.creatures[k].y - vy,
                        "@", "#fff") :
                k \in {j \in DOMAIN st.creatures :
                            Visible(st.creatures[j], st.currentZ, vx, vy, tw, th)}},
          items |->
            {EntityDraw(st.items[k], st.items[k].x - vx, st.items[k].y - vy, "*", "#888") :
                k \in {j \in DOMAIN st.items :
                            /\ Visible(st.items[j], st.currentZ, vx, vy, tw, th)
                            /\ ~\E c \in DOMAIN st.creatures :
                                    /\ st.creatures[c].x = st.items[j].x
                                    /\ st.creatures[c].y = st.items[j].y
                                    /\ st.creatures[c].z = st.items[j].z}}]

\* screenToWorld(screenX, screenY), for a position (cx, cy) on the canvas.
screenToWorld(cx, cy, vx, vy) == [x |-> (cx \div tileW) + vx, y |-> (cy \div tileH) + vy]

(***************************************************************************)
(* InputHandler: the commands of the keys (input.js), and sendMessage      *)
(* (renderer.js).                                                          *)
(***************************************************************************)
\* _changeZLevel with the upper bound included: newZ <= depth.
changeZLevelUpToDepth(cz, dp, delta) ==
    IF cz + delta >= 0 /\ cz + delta <= dp
    THEN <<[type |-> "request_z_level", z |-> cz + delta]>>
    ELSE <<>>

\* _changeZLevel(delta): what it hands to sendMessage; cz and dp are the
\* mirror's currentZ and depth.
changeZLevel(cz, dp, delta) ==
    IF cz + delta >= 0 /\ cz + delta < dp
    THEN <<[type |-> "request_z_level", z |-> cz + delta]>>
    ELSE <<>>

ScrollKeys == {"ArrowUp", "w", "ArrowDown", "s", "ArrowLeft", "a", "ArrowRight", "d"}
ZUpKeys == {"<", ","}
ZDownKeys == {">", "."}
\* Every case of the switch, and a key that has none.
Keys == ScrollKeys \cup ZUpKeys \cup ZDownKeys \cup {" ", "Escape", "x"}

\* The keydown listener with the pause key sending only to pause, never to
\* resume: nothing is handed over while the mirror says paused.
keyCommandsPauseOnce(key, cz, dp, isPaused) ==
    CASE key \in ZUpKeys -> changeZLevel(cz, dp, 1)
      [] key \in ZDownKeys -> changeZLevel(cz, dp, -1)
      [] key = " " -> IF isPaused THEN <<>> ELSE <<[type |-> "pause"]>>
      [] OTHER -> <<>>

\* The keydown listener: what it hands to sendMessage for this key.  The
\* mirror's pause flag is in scope of the listener, which does not read it.
keyCommands(key, cz, dp, isPaused) ==
    CASE key \in ZUpKeys -> changeZLevel(cz, dp, 1)
      [] key \in ZDownKeys -> changeZLevel(cz, dp, -1)
      [] key = " " -> <<[type |-> "pause"]>>
      [] OTHER -> <<>>

\* sendMessage for the messages of one callback: what reaches ws.send.  ws is
\* the socket connect() created last.
sendMessage(socks, msgs) ==
    IF socks # <<>> /\ socks[Len(socks)] = "open" THEN msgs ELSE <<>>

(***************************************************************************)
(* State.                                                                  *)
(***************************************************************************)
VARIABLES
    \* GameState
    width, height, depth, surfaceZ, currentZ, tiles, creatures, items, paused,
    \* Renderer
    viewX, viewY, tilesWide, tilesHigh,
    \* the event the last callback handled (Idle between callbacks), and
    \* whether that callback ended by an uncaught exception
    event, threw,
    \* history: the z of the z_level message that delivered this.tiles
    tilesZ,
    \* InputHandler
    designating, designStart, designationType,
    \* the mouse: where on the canvas its button went down (Null while it is up)
    pointer,
    \* the page's connection: the readyState of every WebSocket connect() has
    \* created, in creation order (ws is the last one), and whether
    \* reconnectTimer holds an interval
    sockets, reconnectTimer,
    \* what the last callback passed to ws.send, in order
    sent,
    \* what the last callback drew on the canvas (NoFrame unless it was render)
    frame

mirrorVars == <<width, height, depth, surfaceZ, currentZ, tiles, creatures, items, paused>>
viewVars == <<viewX, viewY, tilesWide, tilesHigh>>
inputVars == <<designating, designStart, designationType>>
netVars == <<sockets, reconnectTimer>>
vars == <<mirrorVars, viewVars, event, threw, tilesZ, inputVars, pointer, netVars, sent, frame>>

Idle == [kind |-> "idle"]
\* null
Null == "null"

\* The pixel sizes of the canvas's bounding rect.
RectWidths == {12, 96}
RectHeights == {40, 136}
\* The rect the page gives the canvas when it loads.
InitRect == <<12, 40>>

\* The GameState object as a record, for the handlers above.
Mirror ==
    [width |-> width, height |-> height, depth |-> depth, surfaceZ |-> surfaceZ,
     currentZ |-> currentZ, tiles |-> tiles, creatures |-> creatures, items |-> items,
     paused |-> paused, threw |-> FALSE]

\* The page after its script ran: new GameState(), new Renderer(canvas, state)
\* (the constructor calls resize()), new InputHandler(...), and connect() has
\* created the first socket.
Init ==
    /\ width = 0 /\ height = 0 /\ depth = 0 /\ surfaceZ = 0 /\ currentZ = 0
    /\ tiles = NoGrid
    /\ creatures = EmptyMap
    /\ items = EmptyMap
    /\ paused = FALSE
    /\ viewX = 0 /\ viewY = 0
    /\ tilesWide = resize(InitRect[1], InitRect[2]).tilesWide
    /\ tilesHigh = resize(InitRect[1], InitRect[2]).tilesHigh
    /\ event = Idle
    /\ threw = FALSE
    /\ tilesZ = Undefined
    /\ designating = FALSE
    /\ designStart = Null
    /\ designationType = Null
    /\ pointer = Null
    /\ sockets = <<"connecting">>
    /\ reconnectTimer = FALSE
    /\ sent = <<>>
    /\ frame = NoFrame

(***************************************************************************)
(* Callbacks.                                                              *)
(***************************************************************************)
\* ws.onmessage: state.handleMessage(data), then centerOn after a snapshot.
\* An exception of handleMessage leaves the callback at once.
OnMessage(data) ==
    /\ event = Idle
    /\ \E s \in DOMAIN sockets :
          /\ sockets[s] = "open"
          /\ event' = [kind |-> "message", data |-> data, socket |-> s]
    /\ \E st \in {handleMessage(Mirror, data)} :
       LET centre == centerOn(st.width \div 2, st.height \div 2, tilesWide, tilesHigh)
           recentre == ~st.threw /\ data.type = "snapshot" /\ st.width > 0
       IN  /\ width' = st.width
           /\ height' = st.height
           /\ depth' = st.depth
           /\ surfaceZ' = st.surfaceZ
           /\ currentZ' = st.currentZ
           /\ tiles' = st.tiles
           /\ creatures' = st.creatures
           /\ items' = st.items
           /\ paused' = st.paused
           /\ threw' = st.threw
           /\ viewX' = IF recentre THEN centre.viewX ELSE viewX
           /\ viewY' = IF recentre THEN centre.viewY ELSE viewY
    /\ tilesZ' = IF data.type = "z_level" THEN data.z ELSE tilesZ
    /\ UNCHANGED <<tilesWide, tilesHigh, inputVars, pointer, netVars, sent, frame>>

\* The callback returns (or its exception reaches the event loop, which
\* reports it and goes on).
Return ==
    /\ event # Idle
    /\ event' = Idle
    /\ threw' = FALSE
    /\ sent' = <<>>
    /\ frame' = NoFrame
    /\ UNCHANGED <<mirrorVars, viewVars, tilesZ, inputVars, pointer, netVars>>

\* The scroll keys of the keydown listener (input.js): their (dx, dy).
keyScroll(key) ==
    CASE key \in {"ArrowUp", "w"} -> <<0, -scrollSpeed>>
      [] key \in {"ArrowDown", "s"} -> <<0, scrollSpeed>>
      [] key \in {"ArrowLeft", "a"} -> <<-scrollSpeed, 0>>
      [] key \in {"ArrowRight", "d"} -> <<scrollSpeed, 0>>

\* The keydown listener with an optimistic pause key: the space bar also
\* flips the mirror's pause flag (this.state.paused = !this.state.paused).
KeyDownTogglesPause(key) ==
    /\ event = Idle
    /\ IF key \in ScrollKeys
       THEN LET d == keyScroll(key)
                v == scroll(viewX, viewY, d[1], d[2], width, height, tilesWide, tilesHigh)
            IN  /\ v.viewX \in -MaxView .. MaxView
                /\ v.viewY \in -MaxView .. MaxView
                /\ viewX' = v.viewX
                /\ viewY' = v.viewY
       ELSE UNCHANGED <<viewX, viewY>>
    /\ sent' = sendMessage(sockets, keyCommands(key, currentZ, depth, paused))
    /\ paused' = IF key = " " THEN ~paused ELSE paused
    /\ IF key = "Escape"
       THEN /\ designating' = FALSE
            /\ designStart' = Null
            /\ designationType' = Null
       ELSE UNCHANGED inputVars
    /\ event' = [kind |-> "keydown", key |-> key]
    /\ UNCHANGED <<width, height, depth, surfaceZ, currentZ, tiles, creatures, items,
                   tilesWide, tilesHigh, threw, tilesZ, pointer, netVars, frame>>

\* The keydown listener: a scroll key calls this.renderer.scroll(dx, dy), a
\* z-level key _changeZLevel, the space bar sends pause, Escape leaves the
\* designation mode; any other key does nothing.
KeyDown(key) ==
    /\ event = Idle
    /\ IF key \in ScrollKeys
       THEN LET d == keyScroll(key)
                v == scroll(viewX, viewY, d[1], d[2], width, height, tilesWide, tilesHigh)
            IN  /\ v.viewX \in -MaxView .. MaxView
                /\ v.viewY \in -MaxView .. MaxView
                /\ viewX' = v.viewX
                /\ viewY' = v.viewY
       ELSE UNCHANGED <<viewX, viewY>>
    /\ sent' = sendMessage(sockets, keyCommands(key, currentZ, depth, paused))
    /\ IF key = "Escape"
       THEN /\ designating' = FALSE
            /\ designStart' = Null
            /\ designationType' = Null
       ELSE UNCHANGED inputVars
    /\ event' = [kind |-> "keydown", key |-> key]
    /\ UNCHANGED <<mirrorVars, tilesWide, tilesHigh, threw, tilesZ, pointer, netVars, frame>>

\* Positions on the canvas, in pixels.
MousePx == {<<0, 0>>, <<13, 17>>}

\* The canvas's mousemove listener: the world position under the mouse goes to
\* the #coords element.
OnMouseMove(pos) ==
    /\ event = Idle
    /\ event' = [kind |-> "mousemove", coords |-> screenToWorld(pos[1], pos[2], viewX, viewY)]
    /\ UNCHANGED <<mirrorVars, viewVars, threw, tilesZ, inputVars, pointer, netVars, sent, frame>>

\* The mouse button goes down on the canvas: no listener is registered for
\* mousedown, so no code runs.
OnMouseDown(pos) ==
    /\ event = Idle
    /\ pointer = Null
    /\ pointer' = pos
    /\ event' = [kind |-> "mousedown", at |-> pos]
    /\ UNCHANGED <<mirrorVars, viewVars, threw, tilesZ, inputVars, netVars, sent, frame>>

\* The mouse button goes up on the canvas: no listener is registered for
\* mouseup (or click), so no code runs.
OnMouseUp(pos) ==
    /\ event = Idle
    /\ pointer # Null
    /\ pointer' = Null
    /\ event' = [kind |-> "mouseup", from |-> pointer, at |-> pos]
    /\ UNCHANGED <<mirrorVars, viewVars, threw, tilesZ, inputVars, netVars, sent, frame>>

\* The window's resize listener: this.resize().
OnResize(rectW, rectH) ==
    /\ event = Idle
    /\ tilesWide' = resize(rectW, rectH).tilesWide
    /\ tilesHigh' = resize(rectW, rectH).tilesHigh
    /\ event' = [kind |-> "resize"]
    /\ UNCHANGED <<mirrorVars, viewX, viewY, threw, tilesZ, inputVars, pointer, netVars, sent, frame>>

\* renderLoop, one animation frame: renderer.render().  (The FPS counter and
\* ui.update() write text into the status bar only.)
RenderFrame ==
    /\ event = Idle
    /\ frame' = render(Mirror, viewX, viewY, tilesWide, tilesHigh)
    /\ event' = [kind |-> "frame"]
    /\ UNCHANGED <<mirrorVars, viewVars, threw, tilesZ, inputVars, pointer, netVars, sent>>

\* ws.onopen of the socket s: the reconnect interval, if any, is cleared.
OnOpen(s) ==
    /\ event = Idle
    /\ sockets[s] = "connecting"
    /\ sockets' = [sockets EXCEPT ![s] = "open"]
    /\ reconnectTimer' = FALSE
    /\ event' = [kind |-> "open", socket |-> s]
    /\ UNCHANGED <<mirrorVars, viewVars, threw, tilesZ, inputVars, pointer, sent, frame>>

\* ws.onclose of the socket s (the server or the network ended it): a
\* reconnect interval is started unless one is running.
OnClose(s) ==
    /\ event = Idle
    /\ sockets[s] \in {"connecting", "open", "closing"}
    /\ sockets' = [sockets EXCEPT ![s] = "closed"]
    /\ reconnectTimer' = TRUE
    /\ event' = [kind |-> "close", socket |-> s]
    /\ UNCHANGED <<mirrorVars, viewVars, threw, tilesZ, inputVars, pointer, sent, frame>>

\* connect(): a new WebSocket, in readyState CONNECTING, becomes ws.  The
\* sockets created before stay as they are, with their handlers.
connect(socks) == Append(socks, "connecting")

\* ws.close() on the socket connect() created last: a connecting or open
\* socket starts closing, a closing or closed one is left alone.
wsClose(socks) ==
    IF socks # <<>> /\ socks[Len(socks)] \in {"connecting", "open"}
    THEN [socks EXCEPT ![Len(socks)] = "closing"]
    ELSE socks

\* How many sockets the page creates at most.
MaxSockets == 4

\* A tick of the interval onclose started: connect().  The interval goes on
\* running; only onopen clears it.
OnReconnectTick ==
    /\ event = Idle
    /\ reconnectTimer
    /\ Len(sockets) < MaxSockets
    /\ sockets' = connect(sockets)
    /\ event' = [kind |-> "tick"]
    /\ UNCHANGED <<mirrorVars, viewVars, threw, tilesZ, inputVars, pointer, reconnectTimer,
                   sent, frame>>

\* The connection of the socket s fails: the browser sets its readyState to
\* CLOSED and fires error and then close on it in one task.  onerror calls
\* close() on ws, the socket created last, whichever socket failed; onclose
\* starts the reconnect interval unless one is running.
OnError(s) ==
    /\ event = Idle
    /\ sockets[s] \in {"connecting", "open", "closing"}
    /\ sockets' = wsClose([sockets EXCEPT ![s] = "closed"])
    /\ reconnectTimer' = TRUE
    /\ event' = [kind |-> "error", socket |-> s]
    /\ UNCHANGED <<mirrorVars, viewVars, threw, tilesZ, inputVars, pointer, sent, frame>>

NextMirror ==
    \/ \E s \in DOMAIN sockets : OnOpen(s)
    \/ \E data \in Messages : OnMessage(data)
    \/ Return

\* The mirror under any sequence of inbound messages.
SpecMirror == Init /\ [][NextMirror]_vars

(***************************************************************************)
(* Vocabulary of the properties.                                           *)
(***************************************************************************)
\* The GameState object after the step.
MirrorAfter ==
    [width |-> width', height |-> height', depth |-> depth', surfaceZ |-> surfaceZ',
     currentZ |-> currentZ', tiles |-> tiles', creatures |-> creatures', items |-> items',
     paused |-> paused', threw |-> FALSE]

\* The step is ws.onmessage handling a message (of this type).
MessageStep == event = Idle /\ event'.kind = "message"
StepOf(type) == MessageStep /\ event'.data.type = type
KnownTypes == {"snapshot", "z_level", "delta", "pause_state"}

\* The last callback handled a message of this type.
Handled(type) == event.kind = "message" /\ event.data.type = type

\* The index of the last entry of list for this id (0: none).
LastIndex(list, id) ==
    LET hits == {i \in 1 .. Len(list) : list[i].id = id}
    IN  IF hits = {} THEN 0 ELSE CHOOSE i \in hits : \A j \in hits : j <= i
IdsOf(list) == {list[i].id : i \in 1 .. Len(list)}

\* The map m updated, for each id of the list, by the last entry for that id only.
LastEntryWins(m, list) ==
    LET last(k) == list[LastIndex(list, k)]
        kept == {k \in (DOMAIN m) \cup IdsOf(list) :
                    k \in IdsOf(list) => ~last(k).removed}
    IN  [k \in kept |-> IF k \in IdsOf(list) THEN last(k) ELSE m[k]]

\* The grid updated, for each cell an entry for level cz names in a row the grid
\* has, by the last such entry only; no grid stays no grid.
LastTileWins(grid, cz, list) ==
    IF ~grid.resident THEN grid
    ELSE LET hits(x, y) == {i \in 1 .. Len(list) :
                                list[i].z = cz /\ list[i].x = x /\ list[i].y = y}
             last(x, y) == list[CHOOSE i \in hits(x, y) : \A j \in hits(x, y) : j <= i]
             named(y) == {list[i].x : i \in {j \in 1 .. Len(list) :
                                                list[j].z = cz /\ list[j].y = y}}
         IN  [resident |-> TRUE,
              rows |-> [y \in DOMAIN grid.rows |->
                          [x \in (DOMAIN grid.rows[y]) \cup named(y) |->
                              IF x \in named(y)
                              THEN [w |-> last(x, y).wall, f |-> last(x, y).floor,
                                    fl |-> last(x, y).flags]
                              ELSE grid.rows[y][x]]]]

\* A tile entry with both coordinates, naming a cell of the resident grid.
WellFormedTile(t, grid) ==
    /\ t.x # Undefined
    /\ t.y # Undefined
    /\ grid.resident => t.y \in DOMAIN grid.rows /\ t.x \in DOMAIN grid.rows[t.y]

\* The delta without its malformed tile entries.
WellFormedPart(delta, grid) ==
    [delta EXCEPT !.tiles = SelectSeq(@, LAMBDA t : WellFormedTile(t, grid))]

(***************************************************************************)
(* Properties of the mirror.                                               *)
(***************************************************************************)
\* C1: whenever a tile grid is resident, currentZ is the z of the z_level
\* message that delivered it.
C1_ResidentGridIsCurrentLevel == tiles.resident => currentZ = tilesZ

\* C2: after applyDelta, for every delta, the creature map is the map before
\* updated by the last entry per id of the delta's creature list (erased when
\* that entry is a removal, set to it otherwise); other ids are unchanged.
C2_DeltaCreaturesLastEntryWins ==
    [][StepOf("delta") =>
          creatures' = LastEntryWins(creatures,
                                     IF event'.data.hasCreatures
                                     THEN event'.data.creatures ELSE <<>>)]_vars

\* C3: a snapshot with a creature list leaves exactly the creatures of the list
\* (per id, its last entry) in the creature map; a snapshot without one leaves
\* the map as it was.
C3_SnapshotReplacesCreatures ==
    [][StepOf("snapshot") =>
          LET data == event'.data IN
          IF data.hasCreatures
          THEN /\ DOMAIN creatures' = IdsOf(data.creatures)
               /\ \A k \in DOMAIN creatures' :
                     creatures'[k] = data.creatures[LastIndex(data.creatures, k)]
          ELSE creatures' = creatures]_vars

\* A snapshot whose list names only creature 2 was applied, and creature 1 is gone.
C3_Witness ==
    /\ Handled("snapshot")
    /\ event.data.hasCreatures
    /\ event.data.creatures = <<Entity(2, posA)>>
    /\ DOMAIN creatures = {2}
    /\ items # EmptyMap

\* C4: a message with a malformed entry does not make handleMessage throw, and
\* leaves the mirror as the message without that entry would: the state
\* before is not corrupted and every well-formed entry is applied.
C4_MalformedEntryIsSkipped ==
    [][StepOf("delta") =>
          /\ ~threw'
          /\ MirrorAfter = handleMessage(Mirror, WellFormedPart(event'.data, tiles))]_vars

\* C5: the tile entries of a delta for another level, or with no grid resident,
\* change nothing and raise no error; an entry for the current level with a
\* grid resident overwrites its cell (x, y) and no other, the last entry for a
\* cell winning.
C5_TileEntriesOverwriteTheirCell ==
    [][StepOf("delta") =>
          LET list == IF event'.data.hasTiles THEN event'.data.tiles ELSE <<>> IN
          /\ tiles' = LastTileWins(tiles, currentZ, list)
          /\ (\A i \in 1 .. Len(list) : list[i].z # currentZ \/ ~tiles.resident)
                => ~threw']_vars

\* C6: width, height, depth and surfaceZ change only in a snapshot step,
\* currentZ only in a snapshot or z_level step; a delta changes none of them,
\* nor the pause flag.
C6_DimensionsAndLevelChangeOnlyByTheirMessages ==
    [][/\ <<width, height, depth, surfaceZ>>' # <<width, height, depth, surfaceZ>>
            => StepOf("snapshot")
       /\ currentZ' # currentZ => StepOf("snapshot") \/ StepOf("z_level")
       /\ StepOf("delta")
            => UNCHANGED <<width, height, depth, surfaceZ, currentZ, paused>>]_vars

\* A delta with tile, creature or item entries was applied to a known world
\* whose level is not the surface and which is paused.
C6_Witness ==
    /\ Handled("delta")
    /\ event.data.hasTiles
    /\ width > 0
    /\ currentZ # surfaceZ
    /\ paused

\* C7: a message of an unknown type leaves every field of the mirror
\* unchanged and raises no error.
C7_UnknownMessageIsNoOp ==
    [][MessageStep /\ event'.data.type \notin KnownTypes
          => UNCHANGED mirrorVars /\ ~threw']_vars

\* An unknown message was handled by a mirror that holds a world, a grid,
\* creatures and items.
C7_Witness ==
    /\ event.kind = "message"
    /\ event.data.type \notin KnownTypes
    /\ width > 0
    /\ tiles.resident
    /\ creatures # EmptyMap
    /\ items # EmptyMap
    /\ paused

\* C8: between two callbacks an observer (render, an input handler) finds
\* each delta applied as a whole or not at all: a delta whose application
\* did not run to its end has changed nothing.
C8_DeltaIsAllOrNothing ==
    [][StepOf("delta") => ~threw' \/ UNCHANGED mirrorVars]_vars

\* One message of each kind, for the viewport.
ViewMsgs ==
    {m \in SnapshotMsgs : ~m.hasCreatures /\ m.surface_z = 0}
        \cup {m \in ZLevelMsgs : m.z = 1}
        \cup {DeltaOf(<<TileEntry(1, 0, 1, cGrass)>>, <<>>, <<>>, FALSE)}
        \cup {m \in PauseMsgs : m.paused}
        \cup UnknownMsgs

NextView ==
    \/ \E s \in DOMAIN sockets : OnOpen(s)
    \/ \E data \in ViewMsgs : OnMessage(data)
    \/ \E key \in ScrollKeys : KeyDown(key)
    \/ \E rw \in RectWidths, rh \in RectHeights : OnResize(rw, rh)
    \/ Return

\* The viewport under messages, scroll keys and resizes in any order.
SpecView == Init /\ [][NextView]_vars

(***************************************************************************)
(* Properties of the viewport.                                             *)
(***************************************************************************)
\* The arguments of the scroll calls considered.
ScrollArgs == (-scrollSpeed) .. scrollSpeed

\* The origin lies in the range scroll clamps to.
InClampRange(vx, vy) ==
    /\ 0 <= vx /\ vx <= width - tilesWide
    /\ 0 <= vy /\ vy <= height - tilesHigh

\* C9: after any scroll(dx, dy) with the world size known, the origin is in
\* [0, max(0, width - tilesWide)] x [0, max(0, height - tilesHigh)], whatever
\* it was before; where the visible extent exceeds the world it is 0.
C9_ScrollClampsToWorld ==
    width > 0 =>
        \A dx \in ScrollArgs, dy \in ScrollArgs :
            LET v == scroll(viewX, viewY, dx, dy, width, height, tilesWide, tilesHigh) IN
            /\ 0 <= v.viewX /\ v.viewX <= Max(0, width - tilesWide)
            /\ 0 <= v.viewY /\ v.viewY <= Max(0, height - tilesHigh)
            /\ tilesWide > width => v.viewX = 0
            /\ tilesHigh > height => v.viewY = 0

\* A scroll key was handled in a known world narrower and lower than the
\* visible extent, and the origin is (0, 0).
C9_Witness ==
    /\ event.kind = "keydown"
    /\ width > 0
    /\ tilesWide > width
    /\ tilesHigh > height
    /\ viewX = 0 /\ viewY = 0

\* C10: scroll(dx, dy) then scroll(-dx, -dy) restores the origin when neither
\* call clamps: the world size is not known, or the origin and the origin
\* shifted by (dx, dy) both lie in the clamp range.
C10_ScrollRoundTrip ==
    \A dx \in ScrollArgs, dy \in ScrollArgs :
        (width <= 0 \/ (InClampRange(viewX, viewY) /\ InClampRange(viewX + dx, viewY + dy)))
        => LET there == scroll(viewX, viewY, dx, dy, width, height, tilesWide, tilesHigh)
               back == scroll(there.viewX, there.viewY, -dx, -dy,
                              width, height, tilesWide, tilesHigh)
           IN  back = [viewX |-> viewX, viewY |-> viewY]

\* ArrowRight was handled in a known world and moved the origin by
\* scrollSpeed without clamping; scrolling back stays in the clamp range.
C10_Witness ==
    /\ event.kind = "keydown"
    /\ event.key = "ArrowRight"
    /\ width > 0
    /\ viewX < width - tilesWide
    /\ InClampRange(viewX, viewY)
    /\ InClampRange(viewX - scrollSpeed, viewY)

(***************************************************************************)
(* The input handler: keys and mouse, with messages arriving and the       *)
(* connection opening and closing in between.                              *)
(***************************************************************************)
InputMsgs ==
    {[type |-> "snapshot", width |-> WorldW, height |-> WorldH, depth |-> Cardinality(Zs),
      surface_z |-> 0, hasCreatures |-> FALSE, creatures |-> <<>>]}
        \cup ZLevelMsgs
        \cup PauseMsgs

NextInput ==
    \/ \E s \in DOMAIN sockets : OnOpen(s)
    \/ \E s \in DOMAIN sockets : OnClose(s)
    \/ \E data \in InputMsgs : OnMessage(data)
    \/ \E key \in Keys : KeyDown(key)
    \/ \E pos \in MousePx : OnMouseMove(pos)
    \/ \E pos \in MousePx : OnMouseDown(pos)
    \/ \E pos \in MousePx : OnMouseUp(pos)
    \/ Return

SpecInput == Init /\ [][NextInput]_vars

\* The step is the keydown listener handling this key.
KeyStep(key) == event = Idle /\ event'.kind = "keydown" /\ event'.key = key
\* ws.readyState === WebSocket.OPEN
WsOpen == sockets # <<>> /\ sockets[Len(sockets)] = "open"

\* C11: every request_z_level that is sent carries a z with 0 <= z < depth, for
\* the depth the mirror holds when the key is pressed; a z-level key whose
\* target currentZ + 1 or currentZ - 1 is outside that range (z = depth, or any
\* press before a snapshot set depth) sends nothing.
C11_ZLevelRequestsInRange ==
    [][/\ \A i \in 1 .. Len(sent') :
            sent'[i].type = "request_z_level" => 0 <= sent'[i].z /\ sent'[i].z < depth
       /\ \A key \in ZUpKeys :
            KeyStep(key) /\ ~(0 <= currentZ + 1 /\ currentZ + 1 < depth) => sent' = <<>>
       /\ \A key \in ZDownKeys :
            KeyStep(key) /\ ~(0 <= currentZ - 1 /\ currentZ - 1 < depth) => sent' = <<>>
      ]_vars

\* The key for one level up was pressed on the last level with the connection
\* open: the target is z = depth and nothing was sent.
C11_Witness ==
    /\ event.kind = "keydown"
    /\ event.key \in ZUpKeys
    /\ depth > 0
    /\ currentZ + 1 = depth
    /\ WsOpen
    /\ sent = <<>>

\* The step is a listener of the input handler handling a key or the mouse.
InputStep == event = Idle /\ event'.kind \in {"keydown", "mousemove", "mousedown", "mouseup"}

\* C12: no input event (a scroll key, a z-level key, the pause key, Escape, a
\* mouse move or button) changes a field of the mirror; the pause flag changes
\* only in a step that applies a pause_state message, and every other field of
\* the mirror only in a step that applies an inbound message.
C12_InputLeavesMirrorAlone ==
    [][/\ InputStep => UNCHANGED mirrorVars
       /\ paused' # paused => StepOf("pause_state")
       /\ mirrorVars' # mirrorVars => MessageStep
      ]_vars

\* The pause key was pressed and its command sent while the mirror, with a
\* world and a grid in it, says not paused: it still says so.
C12_Witness ==
    /\ event.kind = "keydown"
    /\ event.key = " "
    /\ sent = <<[type |-> "pause"]>>
    /\ ~paused
    /\ width > 0
    /\ tiles.resident

\* C13 as stated: every press of the pause key sends exactly one
\* {type: "pause"}, whatever the mirror's pause flag and whatever the state of
\* the connection.
C13_PauseAlwaysSent ==
    [][KeyStep(" ") => sent' = <<[type |-> "pause"]>>]_vars

\* C13 amended: a press of the pause key while the socket ws is open sends
\* exactly one {type: "pause"}, whatever the mirror's pause flag; a press while
\* ws is not open (connecting, closing or closed) sends nothing.
C13_PauseSentWhileOpen ==
    [][KeyStep(" ") => sent' = IF WsOpen THEN <<[type |-> "pause"]>> ELSE <<>>]_vars

\* The pause key was pressed while the mirror says paused and the connection
\* is open: one pause command went out.
C13_Witness ==
    /\ event.kind = "keydown"
    /\ event.key = " "
    /\ paused
    /\ WsOpen
    /\ sent = <<[type |-> "pause"]>>

\* C14: a designation gesture (the mouse button pressed at one tile of the
\* canvas and released at another) that completes while the connection is
\* open sends exactly one command, which carries the start tile, the end tile
\* and the selected designation type; Escape discards the pending start point
\* and type and sends nothing.
C14_GestureEndsOneWay ==
    [][/\ event = Idle /\ event'.kind = "mouseup" /\ WsOpen =>
            /\ Len(sent') = 1
            /\ sent'[1].start = screenToWorld(event'.from[1], event'.from[2], viewX, viewY)
            /\ sent'[1].end = screenToWorld(event'.at[1], event'.at[2], viewX, viewY)
            /\ sent'[1].designation = designationType
       /\ KeyStep("Escape") =>
            /\ ~designating'
            /\ designStart' = Null
            /\ designationType' = Null
            /\ sent' = <<>>
      ]_vars

(***************************************************************************)
(* The renderer: frames drawn while entities come and go, the level        *)
(* changes and the viewport moves.                                         *)
(***************************************************************************)
RenderMsgs ==
    {[type |-> "snapshot", width |-> WorldW, height |-> WorldH, depth |-> Cardinality(Zs),
      surface_z |-> 0, hasCreatures |-> FALSE, creatures |-> <<>>]}
        \cup ZLevelMsgs
        \cup {DeltaOf(<<>>, <<c>>, <<>>, FALSE) : c \in CreatureEntries}
        \cup {DeltaOf(<<>>, <<>>, <<i>>, FALSE) : i \in ItemEntries}

NextRender ==
    \/ \E s \in DOMAIN sockets : OnOpen(s)
    \/ \E data \in RenderMsgs : OnMessage(data)
    \/ \E key \in ScrollKeys : KeyDown(key)
    \/ \E rw \in RectWidths, rh \in RectHeights : OnResize(rw, rh)
    \/ RenderFrame
    \/ Return

SpecRender == Init /\ [][NextRender]_vars

\* The draws of a pass that land on the screen cell (sx, sy).
DrawsAt(pass, sx, sy) == {d \in pass : d.sx = sx /\ d.sy = sy}

\* Every item draw of the frame is of an item on the current level, inside
\* the visible rectangle, at a cell no creature shares.
ItemDrawsAreLegal ==
    \A d \in frame.items :
        /\ d.id \in DOMAIN items
        /\ Visible(items[d.id], currentZ, viewX, viewY, tilesWide, tilesHigh)
        /\ d.sx = items[d.id].x - viewX
        /\ d.sy = items[d.id].y - viewY
        /\ ~\E c \in DOMAIN creatures :
                /\ creatures[c].x = items[d.id].x
                /\ creatures[c].y = items[d.id].y
                /\ creatures[c].z = items[d.id].z

\* At every visible cell a creature of the current level occupies, the frame
\* has a creature draw and no item draw (the item pass comes last).
CreaturesOnTop ==
    \A c \in DOMAIN creatures :
        tiles.resident /\ Visible(creatures[c], currentZ, viewX, viewY, tilesWide, tilesHigh) =>
            /\ DrawsAt(frame.creatures, creatures[c].x - viewX, creatures[c].y - viewY) # {}
            /\ DrawsAt(frame.items, creatures[c].x - viewX, creatures[c].y - viewY) = {}

\* No cell receives more than one item draw.
OneItemDrawPerCell == \A d \in frame.items : DrawsAt(frame.items, d.sx, d.sy) = {d}

\* C15: in every render call no item is drawn at a cell where a creature has
\* the same (x, y, z): items are drawn only on the current level, inside the
\* visible rectangle, at cells free of creatures, so where a creature of the
\* current level is visible the last entity drawn is a creature; and no cell
\* receives an item draw more than once.
C15_ItemsBeneathCreaturesOncePerCell ==
    event.kind = "frame" => ItemDrawsAreLegal /\ CreaturesOnTop /\ OneItemDrawPerCell

\* What of C15 holds of render(): everything but the single draw per cell.
RenderKeepsItemsBeneathCreatures ==
    event.kind = "frame" => ItemDrawsAreLegal /\ CreaturesOnTop

(***************************************************************************)
(* drawTile: frames of grids of every tile of a bounded set.               *)
(***************************************************************************)
\* <<wall code, floor code>> of the columns of a grid, from the left: codes of
\* the tables (0 is the empty wall) and the code 10, which no table knows.
Materials == <<<<0, 0>>, <<0, 6>>, <<0, 10>>, <<3, 0>>, <<10, 6>>, <<9, 10>>>>
\* Every combination of the 8 flag bits.
FlagSets == 0 .. (2 * FLAG_DESIGNATED - 1)
\* The grid whose tiles all carry the flags fl, over the materials above.
DrawGrid(fl) ==
    [resident |-> TRUE,
     rows |-> [y \in 0 .. (WorldH - 1) |->
                [x \in 0 .. (WorldW - 1) |->
                    [w |-> Materials[(x % Len(Materials)) + 1][1],
                     f |-> Materials[(x % Len(Materials)) + 1][2],
                     fl |-> fl]]]]

DrawMsgs ==
    {[type |-> "snapshot", width |-> WorldW, height |-> WorldH, depth |-> Cardinality(Zs),
      surface_z |-> 0, hasCreatures |-> FALSE, creatures |-> <<>>]}
        \cup {[type |-> "z_level", z |-> 0, tiles |-> DrawGrid(fl)] : fl \in FlagSets}

NextDraw ==
    \/ \E s \in DOMAIN sockets : OnOpen(s)
    \/ \E data \in DrawMsgs : OnMessage(data)
    \/ \E rw \in RectWidths, rh \in RectHeights : OnResize(rw, rh)
    \/ RenderFrame
    \/ Return

SpecDraw == Init /\ [][NextDraw]_vars

\* The tile of the resident grid behind the screen cell c.
TileAt(c) == tiles.rows[viewY + c[2]][viewX + c[1]]

\* No stair, ramp or building flag is set: the material decides the glyph.
MaterialDecides(fl) ==
    /\ ~HasFlag(fl, FLAG_HAS_STAIR_UP) /\ ~HasFlag(fl, FLAG_HAS_STAIR_DOWN)
    /\ ~HasFlag(fl, FLAG_HAS_RAMP) /\ ~HasFlag(fl, FLAG_HAS_BUILDING)

\* The precedence of the foreground rules and the background rule, for the
\* tile t drawn as g.
DrawnByPrecedence(t, g) ==
    LET up == HasFlag(t.fl, FLAG_HAS_STAIR_UP)
        down == HasFlag(t.fl, FLAG_HAS_STAIR_DOWN)
        ramp == HasFlag(t.fl, FLAG_HAS_RAMP)
        building == HasFlag(t.fl, FLAG_HAS_BUILDING)
    IN  /\ up /\ down => g.ch = "X" /\ g.fg = "#aaa"
        /\ up /\ ~down => g.ch = "<" /\ g.fg = "#aaa"
        /\ ~up /\ down => g.ch = ">" /\ g.fg = "#aaa"
        /\ ~up /\ ~down /\ ramp => g.ch = "triangle" /\ g.fg = "#888"
        /\ ~up /\ ~down /\ ~ramp /\ building => g.ch = "omega" /\ g.fg = "#c84"
        /\ MaterialDecides(t.fl) /\ t.w # 0 /\ t.w \in DOMAIN WALL_DISPLAY =>
                g.ch = WALL_DISPLAY[t.w].ch /\ g.fg = WALL_DISPLAY[t.w].fg
        /\ MaterialDecides(t.fl) /\ t.w = 0 /\ HasFlag(t.fl, FLAG_HAS_FLOOR)
                /\ t.f \in DOMAIN FLOOR_DISPLAY =>
                g.ch = FLOOR_DISPLAY[t.f].ch /\ g.fg = FLOOR_DISPLAY[t.f].fg
        /\ MaterialDecides(t.fl) /\ t.w = 0 /\ ~HasFlag(t.fl, FLAG_HAS_FLOOR) => g.ch = " "
        /\ g.bg = (IF HasFlag(t.fl, FLAG_DESIGNATED) THEN "#330" ELSE "#000")

\* C16: for every tile (every combination of the 8 flag bits, wall and floor
\* codes of a bounded set) drawTile takes the foreground of the first rule
\* that matches, in the order: both stairs, stair up, stair down, ramp,
\* building, non-empty wall, floor flag with empty wall, else the empty glyph;
\* the material never overrides a stair, ramp or building flag; the
\* background is the highlight exactly when the designated flag is set.
C16_DrawTilePrecedence ==
    event.kind = "frame" => \A c \in DOMAIN frame.cells : DrawnByPrecedence(TileAt(c), frame.cells[c])

\* A frame drew a designated granite tile with a building on it: the building
\* glyph on the highlight.
C16_Witness ==
    /\ event.kind = "frame"
    /\ \E c \in DOMAIN frame.cells :
            /\ TileAt(c).w = 3
            /\ TileAt(c).fl = FLAG_HAS_BUILDING + FLAG_DESIGNATED
            /\ frame.cells[c] = [ch |-> "omega", fg |-> "#c84", bg |-> "#330"]

\* C17: when the wall rule or the floor rule is reached with a code its table
\* has no entry for, the tile is drawn with a marker that is not blank and
\* whose character and colour differ from those of every entry of that table.
C17_UnknownMaterialIsDistinct ==
    event.kind = "frame" =>
        \A c \in DOMAIN frame.cells :
            LET t == TileAt(c)
                g == frame.cells[c]
            IN  /\ MaterialDecides(t.fl) /\ t.w # 0 /\ t.w \notin DOMAIN WALL_DISPLAY =>
                    /\ g.ch # " "
                    /\ \A k \in DOMAIN WALL_DISPLAY :
                            <<g.ch, g.fg>> # <<WALL_DISPLAY[k].ch, WALL_DISPLAY[k].fg>>
                /\ MaterialDecides(t.fl) /\ t.w = 0 /\ HasFlag(t.fl, FLAG_HAS_FLOOR)
                        /\ t.f \notin DOMAIN FLOOR_DISPLAY =>
                    /\ g.ch # " "
                    /\ \A k \in DOMAIN FLOOR_DISPLAY :
                            <<g.ch, g.fg>> # <<FLOOR_DISPLAY[k].ch, FLOOR_DISPLAY[k].fg>>

\* C18: whenever a tile grid is resident it has exactly height rows and every
\* row exactly width cells, for the width and height the mirror holds.
C18_GridHasWorldDimensions ==
    tiles.resident =>
        /\ DOMAIN tiles.rows = 0 .. (height - 1)
        /\ \A y \in DOMAIN tiles.rows : DOMAIN tiles.rows[y] = 0 .. (width - 1)

\* C19: of the inbound messages only a snapshot moves the viewport origin: it
\* puts the world's centre tile (floor(width / 2), floor(height / 2)) at the
\* visible centre, without clamping; a z_level, delta, pause_state or unknown
\* message leaves viewX and viewY as they were.
C19_ViewportMovesOnlyOnSnapshot ==
    [][MessageStep =>
            IF event'.data.type = "snapshot"
            THEN /\ viewX' = (width' \div 2) - (tilesWide \div 2)
                 /\ viewY' = (height' \div 2) - (tilesHigh \div 2)
            ELSE UNCHANGED <<viewX, viewY>>
      ]_vars

\* A snapshot was applied with the canvas larger than the world: the origin
\* is left negative on both axes.
C19_Witness ==
    /\ Handled("snapshot")
    /\ tilesWide > width
    /\ viewX = (width \div 2) - (tilesWide \div 2)
    /\ viewX < 0
    /\ viewY < 0

\* The delta without its items list; without its creatures list.
WithoutItems(delta) == [delta EXCEPT !.hasItems = FALSE, !.items = <<>>]
WithoutCreatures(delta) == [delta EXCEPT !.hasCreatures = FALSE, !.creatures = <<>>]

\* C20: the item map changes only in a step that applies a delta with an items
\* list: a snapshot (with or without creatures), z_level, pause_state or
\* unknown message leaves it unchanged, and so do the tiles and creatures
\* entries of a delta; the items entries of a delta never change the creature
\* map, also when a creature and an item have the same id.
C20_ItemMapChangesOnlyByDeltaItems ==
    [][MessageStep =>
            /\ event'.data.type # "delta" => items' = items
            /\ event'.data.type = "delta" =>
                    /\ ~event'.data.hasItems => items' = items
                    /\ \A st \in {handleMessage(Mirror, WithoutItems(event'.data))} :
                            st.items = items /\ creatures' = st.creatures
                    /\ items' = handleMessage(Mirror, WithoutCreatures(event'.data)).items
      ]_vars

\* A delta removed item 1 while creature 1 is known: the creature is still
\* there, and so is item 2.
C20_Witness ==
    /\ Handled("delta")
    /\ event.data.items = <<Removal(1)>>
    /\ DOMAIN creatures = {1}
    /\ DOMAIN items = {2}


(***************************************************************************)
(* The connection: sockets opening, failing and closing, the reconnect     *)
(* interval ticking, and messages arriving on whichever socket is open.    *)
(***************************************************************************)
NetMsgs == PauseMsgs

NextNet ==
    \/ \E s \in DOMAIN sockets : OnOpen(s)
    \/ \E s \in DOMAIN sockets : OnClose(s)
    \/ \E s \in DOMAIN sockets : OnError(s)
    \/ OnReconnectTick
    \/ \E data \in NetMsgs : OnMessage(data)
    \/ Return

SpecNet == Init /\ [][NextNet]_vars

\* The sockets that are connecting or open.
Alive == {s \in DOMAIN sockets : sockets[s] \in {"connecting", "open"}}

\* C21: under any interleaving of open, close and error events and ticks of
\* the reconnect interval, at most one socket is connecting or open, a message
\* applied to the mirror came from the socket created last, and no reconnect
\* interval runs while that socket is open.
C21_OneLiveConnection ==
    /\ Cardinality(Alive) <= 1
    /\ event.kind = "message" => event.socket = Len(sockets)
    /\ WsOpen => ~reconnectTimer
====
